---- MODULE Spec2Model ----
(***************************************************************************)
(* Model of the iMessage analysis server: MessageAnalyzer                  *)
(* (src/message_analyzer.py) behind the lazily created global analyzer of  *)
(* src/mcp_server.py.  One server process; tool invocations arrive one at  *)
(* a time (synchronous handlers), the first one triggers the load.         *)
(***************************************************************************)
EXTENDS Integers, Sequences, FiniteSets, TLC

\* ------------------------------------------------------------------ bounds
\* Longest row sequence an acquisition path (adapter or raw query) yields.
MaxRows == 2
\* Largest top_n / limit argument a tool invocation carries.
MaxArg == 2

\* LIMIT of the fallback query.
FallbackLimit == 10000

\* ------------------------------------------------------- Python values
\* A Python value is a record [t, s]: t its type, s its characters (the
\* characters of a str, the bytes of a bytes, the digits of an int, "1"/"0"
\* for a bool).
None == [t |-> "none", s |-> <<>>]
Str(cs) == [t |-> "str", s |-> cs]
Bytes(bs) == [t |-> "bytes", s |-> bs]
PyInt(ds) == [t |-> "int", s |-> ds]
PyTrue == [t |-> "bool", s |-> <<"1">>]
PyFalse == [t |-> "bool", s |-> <<"0">>]

\* Python truthiness: None, '', b'', 0 and False are falsy.
Truthy(v) ==
    CASE v.t = "none" -> FALSE
      [] v.t \in {"str", "bytes"} -> v.s # <<>>
      [] OTHER -> v.s # <<"0">>

\* bool(v)
PyBool(v) == IF Truthy(v) THEN PyTrue ELSE PyFalse

\* Python ==, on the values of the model: 1 == True and 0 == False.
PyEq(a, b) ==
    \/ a = b
    \/ /\ a.t \in {"int", "bool"}
       /\ b.t \in {"int", "bool"}
       /\ a.s = b.s
       /\ a.s \in {<<"0">>, <<"1">>}

\* a or b
PyOr(a, b) == IF Truthy(a) THEN a ELSE b

Min(a, b) == IF a <= b THEN a ELSE b

\* ------------------------------------------------------------- literals
UnknownStr == Str(<<"U", "n", "k", "n", "o", "w", "n">>)
EmptyStr == Str(<<>>)
Placeholder ==
    Str(<<"[", "a", "t", "t", "a", "c", "h", "m", "e", "n", "t", "/",
          "r", "e", "a", "c", "t", "i", "o", "n", "]">>)

\* The byte 0xE9 alone is not valid UTF-8; latin-1 decodes it to e-acute.
Utf8Valid(bs) == \A i \in 1..Len(bs) : bs[i] # "xE9"
Latin1(bs) == [i \in 1..Len(bs) |-> IF bs[i] = "xE9" THEN "eacute" ELSE bs[i]]

\* The defensive decode of the fallback: utf-8, then latin-1 (which accepts
\* every byte, so the lossy third decode is never reached).
DecodeText(text) ==
    IF text.t = "bytes"
    THEN IF Utf8Valid(text.s) THEN Str(text.s) ELSE Str(Latin1(text.s))
    ELSE text

\* ---------------------------------------------------------- source rows
\* A row is [bad, f]: f the positional fields, bad when touching the row
\* raises (an element that is no tuple, a field whose conversion throws).
Row(fs) == [bad |-> FALSE, f |-> fs]
BadRow == [bad |-> TRUE, f |-> <<>>]

PhoneA == Str(<<"+", "1", "5", "5", "5", "1", "2", "3", "4", "5", "6", "7">>)
MailB == Str(<<"b", "@", "x">>)
TextHi == Str(<<"H", "e", "y", " ", "y", "o", "u">>)
TextCat == Str(<<"t", "h", "e", " ", "C", "a", "t", ",", " ", "c", "a", "t", "!">>)
TextOk == Str(<<"T", "h", "e", " ", "c", "a", "t", ",", " ", "o", "k", ".">>)
TextLong ==
    Str(<<"o", "n", "e", " ", "t", "w", "o", " ", "s", "i", "x", " ",
          "t", "e", "n", " ", "r", "e", "d", " ", "b", "i", "g", " ",
          "s", "u", "n", " ", "s", "k", "y", " ", "a", "i", "r", " ",
          "i", "c", "e", " ", "f", "o", "g">>)
IMessage == Str(<<"i", "M", "e", "s", "s", "a", "g", "e">>)
Acct == Str(<<"m", "e">>)

\* Rows of six fields, as both acquisition paths can deliver them.
FullRows ==
    { Row(<<PhoneA, TextHi, PyInt(<<"5">>), IMessage, Acct, PyInt(<<"1">>)>>),
      Row(<<MailB, TextCat, PyInt(<<"1", "2">>), IMessage, Acct, PyInt(<<"0">>)>>),
      Row(<<PhoneA, None, None, None, None, None>>),
      Row(<<None, TextHi, PyInt(<<"5">>), IMessage, Acct, PyInt(<<"0">>)>>),
      Row(<<None, None, PyInt(<<"5">>), IMessage, Acct, PyInt(<<"0">>)>>),
      Row(<<UnknownStr, EmptyStr, None, IMessage, Acct, PyInt(<<"1">>)>>),
      Row(<<EmptyStr, EmptyStr, PyInt(<<"5">>), IMessage, Acct, PyInt(<<"0">>)>>) }

\* What the raw query can return: six columns per row, the text possibly a
\* blob, or a row that raises.
DbRows ==
    FullRows \cup
    { Row(<<MailB, Bytes(<<"c", "a", "f", "xE9">>), PyInt(<<"5">>), IMessage, Acct, PyInt(<<"1">>)>>),
      BadRow }

\* What the adapter can return: tuples of str fields, also of fewer than six
\* fields, or an element that raises.
AdapterRows ==
    FullRows \cup
    { Row(<<>>), Row(<<MailB>>), Row(<<PhoneA, TextHi, PyInt(<<"5">>)>>), BadRow }

SeqsUpTo(S, n) == UNION { [1..k -> S] : k \in 0..n }

\* ------------------------------------------------------------ normalizers
Message(h, t, d, sv, ac, me) ==
    [handle_id |-> h, text |-> t, date |-> d, service |-> sv,
     account |-> ac, is_from_me |-> me]

\* message_analyzer.py 103-110: the primary path's record of a tuple.
PrimaryDict(msg) ==
    LET n == Len(msg.f) IN
    Message(IF n > 0 THEN msg.f[1] ELSE UnknownStr,
            IF n > 1 THEN msg.f[2] ELSE EmptyStr,
            IF n > 2 THEN msg.f[3] ELSE None,
            IF n > 3 THEN msg.f[4] ELSE UnknownStr,
            IF n > 4 THEN msg.f[5] ELSE UnknownStr,
            IF n > 5 THEN msg.f[6] ELSE PyFalse)

\* message_analyzer.py 113: text or handle_id != 'Unknown'.
PrimaryKeeps(m) == Truthy(m.text) \/ m.handle_id # UnknownStr

\* Variant: the service and account columns are read in the wrong order.
FallbackDict_swapped(row) ==
    LET text == DecodeText(IF Truthy(row.f[2]) THEN row.f[2] ELSE EmptyStr) IN
    Message(PyOr(row.f[1], UnknownStr),
            PyOr(text, Placeholder),
            row.f[3],
            PyOr(row.f[5], UnknownStr),
            PyOr(row.f[4], UnknownStr),
            PyBool(row.f[6]))

\* message_analyzer.py 176-194: the fallback's record of a query row.
FallbackDict(row) ==
    LET text == DecodeText(IF Truthy(row.f[2]) THEN row.f[2] ELSE EmptyStr) IN
    Message(PyOr(row.f[1], UnknownStr),
            PyOr(text, Placeholder),
            row.f[3],
            PyOr(row.f[4], UnknownStr),
            PyOr(row.f[5], UnknownStr),
            PyBool(row.f[6]))

\* message_analyzer.py 197: handle_id != 'Unknown'.
FallbackKeeps(m) == m.handle_id # UnknownStr

\* The longest prefix of rows the primary loop gets through: it stops at
\* the first row that raises.
RECURSIVE CleanPrefix(_)
CleanPrefix(rows) ==
    IF rows = <<>> \/ Head(rows).bad THEN <<>>
    ELSE <<Head(rows)>> \o CleanPrefix(Tail(rows))

\* message_analyzer.py 100-114: self.messages after the primary loop ran
\* over rows none of which raises.
RECURSIVE PrimaryCollect(_)
PrimaryCollect(rows) ==
    IF rows = <<>> THEN <<>>
    ELSE LET m == PrimaryDict(Head(rows)) IN
         (IF PrimaryKeeps(m) THEN <<m>> ELSE <<>>) \o PrimaryCollect(Tail(rows))

\* Variant: the inner except leaves the loop (break) instead of skipping.
RECURSIVE FallbackCollect_breaks(_)
FallbackCollect_breaks(rows) ==
    IF rows = <<>> \/ Head(rows).bad THEN <<>>
    ELSE LET m == FallbackDict(Head(rows)) IN
         (IF FallbackKeeps(m) THEN <<m>> ELSE <<>>)
         \o FallbackCollect_breaks(Tail(rows))

\* message_analyzer.py 172-203: self.messages after the fallback loop; a row
\* that raises is skipped by the inner except.
RECURSIVE FallbackCollect(_)
FallbackCollect(rows) ==
    IF rows = <<>> THEN <<>>
    ELSE LET r == Head(rows) IN
         (IF r.bad THEN <<>>
          ELSE LET m == FallbackDict(r) IN
               IF FallbackKeeps(m) THEN <<m>> ELSE <<>>)
         \o FallbackCollect(Tail(rows))

\* message_analyzer.py 165-166: the query's rows of a table already in
\* date-descending order.
QueryRows(table) == SubSeq(table, 1, Min(Len(table), FallbackLimit))

\* ---------------------------------------------------------------- strings
\* The characters of the model in ASCII order; Ord is a character's rank.
AsciiChars ==
    <<" ", "!", "(", ")", "+", ",", "-", ".", "/",
      "0", "1", "2", "3", "4", "5", "6", "7", "8", "9", ":", "?", "@",
      "A", "B", "C", "D", "E", "F", "G", "H", "I", "J", "K", "L", "M",
      "N", "O", "P", "Q", "R", "S", "T", "U", "V", "W", "X", "Y", "Z",
      "[", "]",
      "a", "b", "c", "d", "e", "f", "g", "h", "i", "j", "k", "l", "m",
      "n", "o", "p", "q", "r", "s", "t", "u", "v", "w", "x", "y", "z",
      "eacute">>
Ord(c) == CHOOSE i \in 1..Len(AsciiChars) : AsciiChars[i] = c

UpperFirst == Ord("A")
LowerFirst == Ord("a")

\* str.lower() on one character and on a string.
LowerChar(c) ==
    IF Ord(c) >= UpperFirst /\ Ord(c) <= Ord("Z")
    THEN AsciiChars[Ord(c) - UpperFirst + LowerFirst] ELSE c
Lower(cs) == [i \in 1..Len(cs) |-> LowerChar(cs[i])]

\* sub in cs
IsSubstr(sub, cs) ==
    \E i \in 0..(Len(cs) - Len(sub)) : SubSeq(cs, i + 1, i + Len(sub)) = sub

\* a < b, Python's comparison of str (lexicographic by code point).
RECURSIVE StrLess(_, _)
StrLess(a, b) ==
    CASE b = <<>> -> FALSE
      [] a = <<>> -> TRUE
      [] Head(a) # Head(b) -> Ord(Head(a)) < Ord(Head(b))
      [] OTHER -> StrLess(Tail(a), Tail(b))

\* str.strip(): leading and trailing blanks removed.
RECURSIVE LStrip(_)
LStrip(cs) == IF cs # <<>> /\ Head(cs) = " " THEN LStrip(Tail(cs)) ELSE cs
RECURSIVE RStrip(_)
RStrip(cs) ==
    IF cs # <<>> /\ cs[Len(cs)] = " " THEN RStrip(SubSeq(cs, 1, Len(cs) - 1)) ELSE cs
Strip(cs) == RStrip(LStrip(cs))

\* str.replace(c, ''), for each character of a set.
Remove(cs, chars) == SelectSeq(cs, LAMBDA c : c \notin chars)

\* str.split(): the maximal runs of non-blank characters.
RECURSIVE SplitFrom(_, _)
SplitFrom(cs, word) ==
    IF cs = <<>> THEN (IF word = <<>> THEN <<>> ELSE <<word>>)
    ELSE IF Head(cs) = " "
         THEN (IF word = <<>> THEN <<>> ELSE <<word>>) \o SplitFrom(Tail(cs), <<>>)
         ELSE SplitFrom(Tail(cs), Append(word, Head(cs)))
Split(cs) == SplitFrom(cs, <<>>)

\* The value of a string of decimal digits.
RECURSIVE DigitsValue(_)
DigitsValue(ds) ==
    IF ds = <<>> THEN 0
    ELSE 10 * DigitsValue(SubSeq(ds, 1, Len(ds) - 1)) + (Ord(ds[Len(ds)]) - Ord("0"))

\* --------------------------------------------------- Identifier Formatter
\* Variant: the exchange digits are put in the parentheses and the area
\* code after them.
format_phone_number_regrouped(handle_id) ==
    LET h == handle_id.s IN
    IF ~Truthy(handle_id) \/ handle_id = UnknownStr THEN UnknownStr.s
    ELSE IF "@" \in {h[i] : i \in 1..Len(h)} THEN h
    ELSE IF Len(h) = 12 /\ SubSeq(h, 1, 2) = <<"+", "1">>
         THEN <<"+", "1", " ", "(">> \o SubSeq(h, 6, 8) \o <<")", " ">>
              \o SubSeq(h, 3, 5) \o <<"-">> \o SubSeq(h, 9, Len(h))
         ELSE h

\* Variant: the phone number test comes before the e-mail test.
format_phone_number_phoneFirst(handle_id) ==
    LET h == handle_id.s IN
    IF ~Truthy(handle_id) \/ handle_id = UnknownStr THEN UnknownStr.s
    ELSE IF Len(h) = 12 /\ SubSeq(h, 1, 2) = <<"+", "1">>
         THEN <<"+", "1", " ", "(">> \o SubSeq(h, 3, 5) \o <<")", " ">>
              \o SubSeq(h, 6, 8) \o <<"-">> \o SubSeq(h, 9, Len(h))
         ELSE h

\* message_analyzer.py 49-65: _format_phone_number, on None or a str; the
\* result is the characters of the returned str.
format_phone_number(handle_id) ==
    LET h == handle_id.s IN
    IF ~Truthy(handle_id) \/ handle_id = UnknownStr THEN UnknownStr.s
    ELSE IF "@" \in {h[i] : i \in 1..Len(h)} THEN h
    ELSE IF Len(h) = 12 /\ SubSeq(h, 1, 2) = <<"+", "1">>
         THEN <<"+", "1", " ", "(">> \o SubSeq(h, 3, 5) \o <<")", " ">>
              \o SubSeq(h, 6, 8) \o <<"-">> \o SubSeq(h, 9, Len(h))
         ELSE h

\* ------------------------------------------------------------- collections
\* A Counter (a dict counting keys) is the sequence of its <<key, count>>
\* pairs in insertion order.
RECURSIVE CountInto(_, _)
CountInto(counter, keys) ==
    IF keys = <<>> THEN counter
    ELSE LET k == Head(keys)
             at == {i \in 1..Len(counter) : counter[i][1] = k}
         IN CountInto(IF at = {}
                      THEN Append(counter, <<k, 1>>)
                      ELSE [counter EXCEPT ![CHOOSE i \in at : TRUE] = <<k, @[2] + 1>>],
                      Tail(keys))
Counter(keys) == CountInto(<<>>, keys)

\* sorted(items, key, reverse=True), keys[i] the key of items[i]: Python's
\* sort is stable, also reversed, so an item goes after every item whose
\* key is not smaller.
\* Variant: an item goes before the items of equal key (an unstable sort).
RECURSIVE InsertDesc_beforeEqual(_, _)
InsertDesc_beforeEqual(sorted, x) ==
    IF sorted = <<>> THEN <<x>>
    ELSE IF Head(sorted)[1] > x[1]
         THEN <<Head(sorted)>> \o InsertDesc_beforeEqual(Tail(sorted), x)
         ELSE <<x>> \o sorted

RECURSIVE InsertDesc(_, _)
InsertDesc(sorted, x) ==
    IF sorted = <<>> THEN <<x>>
    ELSE IF Head(sorted)[1] >= x[1]
         THEN <<Head(sorted)>> \o InsertDesc(Tail(sorted), x)
         ELSE <<x>> \o sorted
RECURSIVE SortKeyedDesc(_)
SortKeyedDesc(keyed) ==
    IF keyed = <<>> THEN <<>>
    ELSE InsertDesc(SortKeyedDesc(SubSeq(keyed, 1, Len(keyed) - 1)), keyed[Len(keyed)])
SortedDesc(items, keys) ==
    LET keyed == [i \in 1..Len(items) |-> <<keys[i], items[i]>>]
        out == SortKeyedDesc(keyed)
    IN [i \in 1..Len(out) |-> out[i][2]]

\* The counts of a Counter's items, the key both sorts of the code use.
Counts(counter) == [i \in 1..Len(counter) |-> counter[i][2]]

\* items[:n], Python's slice with a stop that may be negative.
SliceTo(items, n) ==
    IF n >= 0 THEN SubSeq(items, 1, Min(n, Len(items)))
    ELSE SubSeq(items, 1, Len(items) + n)

\* items[-n:], Python's slice with a start of -n (n = 0 gives all of it).
SliceLast(items, n) ==
    IF n > 0 THEN SubSeq(items, Len(items) - Min(n, Len(items)) + 1, Len(items))
    ELSE SubSeq(items, Min(0 - n, Len(items)) + 1, Len(items))

\* Counter.most_common(n): heapq.nlargest(n, items, key=count), which is
\* sorted(items, key=count, reverse=True)[:n] and empty for n <= 0.
most_common(counter, n) ==
    IF n <= 0 THEN <<>>
    ELSE SliceTo(SortedDesc(counter, Counts(counter)), n)

\* -------------------------------------------------------- Analytics Engine
\* A float that is a quotient of two counts is kept as the exact fraction.
Ratio(n, d) == [num |-> n, den |-> d]
Zero == Ratio(0, 1)

\* round(100 * n / d, 1) and round(n / d, 1), in tenths: the nearest tenth,
\* a tie going to the even one.
RoundHalfEven(n, d) ==
    LET q == n \div d
        r == n % d
    IN IF 2 * r < d THEN q
       ELSE IF 2 * r > d THEN q + 1
       ELSE IF q % 2 = 0 THEN q ELSE q + 1
Percent(n, d) == RoundHalfEven(1000 * n, d)
Tenths(n, d) == RoundHalfEven(10 * n, d)

RECURSIVE Sum(_)
Sum(ns) == IF ns = <<>> THEN 0 ELSE Head(ns) + Sum(Tail(ns))
RECURSIVE Max(_)
Max(ns) ==
    IF Len(ns) = 1 THEN Head(ns)
    ELSE LET m == Max(Tail(ns)) IN IF Head(ns) >= m THEN Head(ns) ELSE m

\* len(text) if text else 0
CharCount(text) == IF Truthy(text) THEN Len(text.s) ELSE 0

NoMessagesLoaded == [kind |-> "error", error |-> "No messages loaded"]

\* The formatted sender of every message, in collection order.
Senders(msgs) == [i \in 1..Len(msgs) |-> format_phone_number(msgs[i].handle_id)]

\* Variant: the senders are counted by raw identifier, not by formatted
\* sender.
basic_stats_rawSenders(msgs) ==
    IF msgs = <<>> THEN NoMessagesLoaded
    ELSE LET senders == Counter([i \in 1..Len(msgs) |->
                                    IF msgs[i].handle_id = None THEN <<"N", "o", "n", "e">>
                                    ELSE msgs[i].handle_id.s])
             withText == SelectSeq(msgs, LAMBDA m : Truthy(m.text))
             lengths == [i \in 1..Len(withText) |-> Len(withText[i].text.s)]
         IN [kind |-> "ok",
             total_messages |-> Len(msgs),
             unique_senders |-> Len(senders),
             top_senders |-> most_common(senders, 5),
             avg_message_length |->
                 IF lengths # <<>> THEN Ratio(Sum(lengths), Len(lengths)) ELSE Zero,
             longest_message |-> IF lengths # <<>> THEN Max(lengths) ELSE 0]

\* message_analyzer.py 227-254
basic_stats(msgs) ==
    IF msgs = <<>> THEN NoMessagesLoaded
    ELSE LET senders == Counter(Senders(msgs))
             withText == SelectSeq(msgs, LAMBDA m : Truthy(m.text))
             lengths == [i \in 1..Len(withText) |-> Len(withText[i].text.s)]
         IN [kind |-> "ok",
             total_messages |-> Len(msgs),
             unique_senders |-> Len(senders),
             top_senders |-> most_common(senders, 5),
             avg_message_length |->
                 IF lengths # <<>> THEN Ratio(Sum(lengths), Len(lengths)) ELSE Zero,
             longest_message |-> IF lengths # <<>> THEN Max(lengths) ELSE 0]

\* message_analyzer.py 263
attachment_patterns ==
    { <<"<", "m", "e", "s", "s", "a", "g", "e">>,
      <<"a", "t", "t", "a", "c", "h", "m", "e", "n", "t", ".", ">">>,
      <<"t", "e", "x", "t", ",">>,
      <<"a", "t", "t", "a", "c", "h", "m", "e", "n", "t">>,
      <<"s", "h", "a", "r", "e", "d">>,
      <<"l", "o", "c", "a", "t", "i", "o", "n">> }

\* message_analyzer.py 265
stop_words ==
    { <<"t", "h", "e">>, <<"a", "n", "d">>, <<"b", "u", "t">>,
      <<"w", "i", "t", "h">>, <<"f", "o", "r">>, <<"y", "o", "u">>,
      <<"a", "r", "e">>, <<"w", "a", "s">>, <<"t", "h", "i", "s">>,
      <<"t", "h", "a", "t">>, <<"h", "a", "v", "e">>, <<"h", "a", "d">> }

\* Variant: the texts holding an attachment/reaction artifact are not left
\* out.
WordsOf_keepsArtifacts(m) ==
    IF Truthy(m.text)
    THEN SelectSeq(Split(Remove(Lower(m.text.s), {",", ".", "!", "?"})),
                   LAMBDA word : Len(word) > 2 /\ word \notin stop_words)
    ELSE <<>>

\* message_analyzer.py 268-273: the words one message contributes.
WordsOf(m) ==
    IF Truthy(m.text)
       /\ ~\E pattern \in attachment_patterns : IsSubstr(pattern, Lower(m.text.s))
    THEN SelectSeq(Split(Remove(Lower(m.text.s), {",", ".", "!", "?"})),
                   LAMBDA word : Len(word) > 2 /\ word \notin stop_words)
    ELSE <<>>

RECURSIVE AllWords(_)
AllWords(msgs) ==
    IF msgs = <<>> THEN <<>> ELSE WordsOf(Head(msgs)) \o AllWords(Tail(msgs))

\* message_analyzer.py 256-277
word_frequency(msgs, top_n) ==
    IF msgs = <<>> THEN NoMessagesLoaded
    ELSE [kind |-> "ok", items |-> most_common(Counter(AllWords(msgs)), top_n)]

\* date > last_message_date, on two int or two str dates.
DateGreater(a, b) ==
    IF a.t = "int" THEN DigitsValue(a.s) > DigitsValue(b.s) ELSE StrLess(b.s, a.s)

\* message_analyzer.py 335-337: the most recent date of a conversation.
RECURSIVE LastDate(_, _)
LastDate(msgs, latest) ==
    IF msgs = <<>> THEN latest
    ELSE LET date == Head(msgs).date IN
         LastDate(Tail(msgs),
                  IF Truthy(date) /\ (~Truthy(latest) \/ DateGreater(date, latest))
                  THEN date ELSE latest)

\* Variant: a message counts as theirs only when its is_from_me is a value
\* (0 or False), so one whose is_from_me is None counts for neither side.
Conversation_unsure(own) ==
    LET mine == Len(SelectSeq(own, LAMBDA m : Truthy(m.is_from_me)))
        theirs == Len(SelectSeq(own, LAMBDA m : /\ ~Truthy(m.is_from_me)
                                                /\ m.is_from_me # None))
        chars == Sum([i \in 1..Len(own) |-> CharCount(own[i].text)])
    IN [messages |-> [i \in 1..Len(own) |->
                         [text |-> own[i].text,
                          is_from_me |-> own[i].is_from_me,
                          date |-> own[i].date,
                          char_count |-> CharCount(own[i].text)]],
        total_count |-> Len(own),
        my_messages |-> mine,
        their_messages |-> theirs,
        total_chars |-> chars,
        avg_message_length |-> Ratio(chars, Len(own)),
        last_message_date |-> LastDate(own, None),
        my_ratio |-> Ratio(mine, Len(own)),
        their_ratio |-> Ratio(theirs, Len(own))]

\* message_analyzer.py 308-344: the entry of one sender, of its messages;
\* each message adds one to total_count and one to my_messages or to
\* their_messages.
Conversation(own) ==
    LET mine == Len(SelectSeq(own, LAMBDA m : Truthy(m.is_from_me)))
        theirs == Len(SelectSeq(own, LAMBDA m : ~Truthy(m.is_from_me)))
        chars == Sum([i \in 1..Len(own) |-> CharCount(own[i].text)])
    IN [messages |-> [i \in 1..Len(own) |->
                         [text |-> own[i].text,
                          is_from_me |-> own[i].is_from_me,
                          date |-> own[i].date,
                          char_count |-> CharCount(own[i].text)]],
        total_count |-> Len(own),
        my_messages |-> mine,
        their_messages |-> theirs,
        total_chars |-> chars,
        avg_message_length |-> Ratio(chars, Len(own)),
        last_message_date |-> LastDate(own, None),
        my_ratio |-> Ratio(mine, Len(own)),
        their_ratio |-> Ratio(theirs, Len(own))]

\* message_analyzer.py 294-346: the dict of conversations, as the sequence
\* of its <<sender, conversation>> items in insertion order.
conversation_analysis(msgs) ==
    IF msgs = <<>> THEN NoMessagesLoaded
    ELSE LET order == Counter(Senders(msgs)) IN
         [kind |-> "ok",
          items |-> [k \in 1..Len(order) |->
                       <<order[k][1],
                         Conversation(SelectSeq(msgs,
                             LAMBDA m : format_phone_number(m.handle_id) = order[k][1]))>>]]

\* Variant: half of the messages is enough to be the one who talks more.
ConvStats_fromHalf(sender, conv) ==
    [contact |-> sender,
     total_messages |-> conv.total_count,
     my_messages |-> conv.my_messages,
     their_messages |-> conv.their_messages,
     my_percentage |-> Percent(conv.my_ratio.num, conv.my_ratio.den),
     their_percentage |-> Percent(conv.their_ratio.num, conv.their_ratio.den),
     avg_message_length |->
         Tenths(conv.avg_message_length.num, conv.avg_message_length.den),
     who_talks_more |->
         IF 2 * conv.my_ratio.num >= conv.my_ratio.den THEN "Me" ELSE "Them"]

\* message_analyzer.py 364-375: the entry of one of the top conversations.
ConvStats(sender, conv) ==
    [contact |-> sender,
     total_messages |-> conv.total_count,
     my_messages |-> conv.my_messages,
     their_messages |-> conv.their_messages,
     my_percentage |-> Percent(conv.my_ratio.num, conv.my_ratio.den),
     their_percentage |-> Percent(conv.their_ratio.num, conv.their_ratio.den),
     avg_message_length |->
         Tenths(conv.avg_message_length.num, conv.avg_message_length.den),
     who_talks_more |->
         IF 2 * conv.my_ratio.num > conv.my_ratio.den THEN "Me" ELSE "Them"]

\* message_analyzer.py 348-377
conversation_stats(msgs, top_n) ==
    LET conversations == conversation_analysis(msgs) IN
    IF conversations.kind = "error" THEN conversations
    ELSE LET sorted_convs ==
                 SliceTo(SortedDesc(conversations.items,
                                    [i \in 1..Len(conversations.items) |->
                                        conversations.items[i][2].total_count]),
                         top_n)
         IN [kind |-> "ok",
             total_conversations |-> Len(conversations.items),
             top_conversations |->
                 [i \in 1..Len(sorted_convs) |->
                     ConvStats(sorted_convs[i][1], sorted_convs[i][2])]]

\* ---------------------------------------------------- Conversation Retrieval
EpochDefault ==
    <<"1", "9", "7", "0", "-", "0", "1", "-", "0", "1", "T",
      "0", "0", ":", "0", "0", ":", "0", "0">>
MeStr == Str(<<"m", "e">>)

\* Variant: only the query is looked for in the identifier, not the
\* identifier in the query.
Matches_oneWay(m, contact_normalized) ==
    LET sender == Lower(format_phone_number(m.handle_id))
        raw == Lower(m.handle_id.s)
    IN \/ IsSubstr(contact_normalized, sender)
       \/ IsSubstr(contact_normalized, raw)

\* message_analyzer.py 405-410: the bidirectional substring test of one
\* message against the normalized contact.
Matches(m, contact_normalized) ==
    LET sender == Lower(format_phone_number(m.handle_id))
        raw == Lower(m.handle_id.s)
    IN \/ IsSubstr(contact_normalized, sender)
       \/ IsSubstr(contact_normalized, raw)
       \/ IsSubstr(sender, contact_normalized)
       \/ IsSubstr(raw, contact_normalized)

\* The test raises AttributeError (None has no lower()) when the identifier
\* is None and the first disjunct did not already decide it.
MatchRaises(m, contact_normalized) ==
    /\ m.handle_id.t # "str"
    /\ ~IsSubstr(contact_normalized, Lower(format_phone_number(m.handle_id)))

\* message_analyzer.py 421-428: the entry of a matched message.
ConvEntry(m) ==
    [text |-> PyOr(m.text, EmptyStr),
     timestamp |-> IF Truthy(m.date) THEN Str(m.date.s) ELSE None,
     sender |-> IF Truthy(m.is_from_me) THEN MeStr
                ELSE Str(format_phone_number(m.handle_id)),
     direction |-> IF Truthy(m.is_from_me) THEN "sent" ELSE "received",
     service |-> m.service,
     char_count |-> Len(PyOr(m.text, EmptyStr).s)]

\* message_analyzer.py 436: the sort key of an entry.
SortKey(e) == IF Truthy(e.timestamp) THEN e.timestamp.s ELSE EpochDefault

\* list.sort(key=...): ascending and stable.
RECURSIVE InsertAsc(_, _)
InsertAsc(sorted, x) ==
    IF sorted = <<>> THEN <<x>>
    ELSE IF StrLess(SortKey(x), SortKey(Head(sorted)))
         THEN <<x>> \o sorted
         ELSE <<Head(sorted)>> \o InsertAsc(Tail(sorted), x)
RECURSIVE SortByTimestamp(_)
SortByTimestamp(entries) ==
    IF entries = <<>> THEN <<>>
    ELSE InsertAsc(SortByTimestamp(SubSeq(entries, 1, Len(entries) - 1)),
                   entries[Len(entries)])

\* Variant: the date filter is in force; every dated message of the model
\* is older than the cutoff.
DateFilterSkips_active(m, days_back) == Truthy(days_back) /\ Truthy(m.date)

\* message_analyzer.py 415-419: the date filter is commented out, so no
\* matching message is skipped, whatever days_back is.
DateFilterSkips(m, days_back) == FALSE

\* message_analyzer.py 398-428: the matched entries, in collection order.
Matched(msgs, contact_normalized, days_back) ==
    LET hits == SelectSeq(msgs, LAMBDA m : /\ Matches(m, contact_normalized)
                                           /\ ~DateFilterSkips(m, days_back))
    IN [i \in 1..Len(hits) |-> ConvEntry(hits[i])]

\* message_analyzer.py 379-468
get_conversation(msgs, contact, limit, days_back) ==
    LET contact_normalized == Strip(Lower(contact)) IN
    IF msgs = <<>> THEN NoMessagesLoaded
    ELSE IF \E i \in 1..Len(msgs) : MatchRaises(msgs[i], contact_normalized)
    THEN [kind |-> "raised", error |-> "AttributeError"]
    ELSE LET found == Matched(msgs, contact_normalized, days_back) IN
         IF found = <<>>
         THEN [kind |-> "error", error |-> "No conversation found"]
         ELSE LET sorted == SortByTimestamp(found)
                  shown == IF Len(sorted) > limit THEN SliceLast(sorted, limit)
                           ELSE sorted
                  total == Len(shown)
                  mine == Len(SelectSeq(shown, LAMBDA e : e.sender = MeStr))
                  chars == Sum([i \in 1..total |-> Len(shown[i].text.s)])
              IN [kind |-> "ok",
                  contact |-> contact,
                  matched_contact |->
                      IF shown # <<>> /\ shown[1].sender # MeStr
                      THEN shown[1].sender.s ELSE contact,
                  total_messages |-> total,
                  my_messages |-> mine,
                  their_messages |-> total - mine,
                  my_percentage |-> IF total > 0 THEN Percent(mine, total) ELSE 0,
                  their_percentage |->
                      IF total > 0 THEN Percent(total - mine, total) ELSE 0,
                  avg_message_length |-> IF total > 0 THEN Tenths(chars, total) ELSE 0,
                  first_message |-> IF shown # <<>> THEN shown[1].timestamp ELSE None,
                  last_message |-> IF shown # <<>> THEN shown[total].timestamp ELSE None,
                  messages_shown |-> total,
                  messages_limited |-> (total = limit),
                  messages |-> shown]

\* ------------------------------------------------------------ tool results
\* What a tool returns: a dict or a list, has_error when the dict has an
\* error field (when an element of the list has one).
ToolDict(value) == [shape |-> "dict", has_error |-> value.kind = "error", value |-> value]
ToolList(items) == [shape |-> "list", has_error |-> FALSE, value |-> items]
\* except Exception as e: return {"error": str(e)}  /  [{"error": str(e)}]
ErrorDict(e) == ToolDict([kind |-> "error", error |-> e])
ErrorList(e) == [shape |-> "list", has_error |-> TRUE, value |-> <<[error |-> e]>>]
FromMethod(r) == IF r.kind = "raised" THEN ErrorDict(r.error) ELSE ToolDict(r)

LoadFailedText == "Failed to fetch messages. Check Full Disk Access permissions."
NoMethod == [kind |-> "none"]

\* mcp_server.py 57: word_frequency() with its default top_n of 10, then the
\* first top_n items of the dict it returned (of the error dict too).
DefaultTopN == 10
get_word_frequency_result(msgs, top_n) ==
    LET wf == word_frequency(msgs, DefaultTopN)
        items == IF wf.kind = "error" THEN <<<<"error", wf.error>>>> ELSE wf.items
        kept == SliceTo(items, top_n)
    IN [shape |-> "dict",
        has_error |-> wf.kind = "error" /\ kept # <<>>,
        value |-> [kind |-> "ok", items |-> kept]]

\* mcp_server.py 92-104
list_contacts_result(msgs, limit) ==
    LET contact_counts == Counter(Senders(msgs))
        sorted_contacts == SortedDesc(contact_counts, Counts(contact_counts))
        kept == SliceTo(sorted_contacts, limit)
    IN ToolList([i \in 1..Len(kept) |->
                    [contact |-> kept[i][1], message_count |-> kept[i][2]]])

\* mcp_server.py 126-137: the loop appends a match, then leaves once the
\* results are limit or more.
RECURSIVE SearchLoop(_, _, _, _)
SearchLoop(msgs, results, query_lower, limit) ==
    IF msgs = <<>> THEN results
    ELSE LET m == Head(msgs) IN
         IF Truthy(m.text) /\ IsSubstr(query_lower, Lower(m.text.s))
         THEN LET more == Append(results,
                              [sender |-> format_phone_number(m.handle_id),
                               text |-> m.text,
                               date |-> m.date,
                               is_from_me |-> m.is_from_me])
              IN IF Len(more) >= limit THEN more
                 ELSE SearchLoop(Tail(msgs), more, query_lower, limit)
         ELSE SearchLoop(Tail(msgs), results, query_lower, limit)

\* mcp_server.py 123-139
search_messages_result(msgs, query, limit) ==
    ToolList(SearchLoop(msgs, <<>>, Lower(query), limit))

\* mcp_server.py 157-182; len(None) raises TypeError on a message whose
\* text is None.
get_contact_statistics_result(msgs, contact) ==
    LET own == SelectSeq(msgs, LAMBDA m : format_phone_number(m.handle_id) = contact)
        total == Len(own)
        mine == Len(SelectSeq(own, LAMBDA m : Truthy(m.is_from_me)))
    IN IF own = <<>> THEN ErrorDict("No messages found for contact")
       ELSE IF \E i \in 1..total : own[i].text.t = "none" THEN ErrorDict("TypeError")
       ELSE ToolDict([kind |-> "ok",
                      contact |-> contact,
                      total_messages |-> total,
                      my_messages |-> mine,
                      their_messages |-> total - mine,
                      my_percentage |-> Percent(mine, total),
                      their_percentage |-> Percent(total - mine, total),
                      average_message_length |->
                          Tenths(Sum([i \in 1..total |-> Len(own[i].text.s)]), total),
                      who_talks_more |->
                          IF 2 * mine > total THEN "Me"
                          ELSE IF 2 * mine < total THEN "Them" ELSE "Equal"])

\* mcp_server.py 206
MaxLimit == 1000

\* mcp_server.py 205-216, given what analyzer.get_conversation returned.
get_conversation_tool_result(conversation, limit) ==
    IF limit > MaxLimit THEN ErrorDict("Limit too high")
    ELSE IF conversation.kind = "ok"
         THEN ToolDict(conversation @@ [privacy_notice |-> "local", data_source |-> "local"])
         ELSE FromMethod(conversation)

\* ------------------------------------------------------------------ state
VARIABLES
    analyzer,        \* mcp_server.py 15: the global, "None" or "set"
    messages,        \* MessageAnalyzer.messages
    sysExit,         \* what the name sys.exit is bound to
    pc,              \* where the running tool handler stands
    env,             \* platform and storage file met by the validation
    pending,         \* how the inner try of fetch_messages was left
    primaryOutcome,  \* what the adapter did in the primary path
    fb,              \* what the fallback met: its outcome and query rows
    fetchResult,     \* what fetch_messages returned: "none" before it did
    fetchCalls,      \* number of calls of fetch_messages
    fallbackCalls,   \* number of calls of _fallback_message_reading
    escaped,         \* exception that left fetch_messages, "none" if none
    loaded,          \* self.messages as fetch_messages left it
    served,          \* a tool invocation has completed
    last             \* the completed invocation: call, result, method result

vars ==
    <<analyzer, messages, sysExit, pc, env, pending, primaryOutcome, fb,
      fetchResult, fetchCalls, fallbackCalls, escaped, loaded, served, last>>

NoEnv == [platform |-> "none", file |-> "none"]
NoPending == [kind |-> "none", exc |-> "none"]
Return == [kind |-> "return", exc |-> "none"]
Raise(e) == [kind |-> "raise", exc |-> e]
NoFb == [outcome |-> "none", rows |-> <<>>, result |-> "none"]
NoLast == [tool |-> "none"]

Platforms == {"darwin", "darwin_old", "other"}
Files == {"ok", "missing", "denied"}

\* message_analyzer.py 19-29
validate_system(platform) ==
    IF platform = "darwin" THEN "ok" ELSE "raise"

\* message_analyzer.py 31-47
validate_database_access(file) ==
    IF file = "ok" THEN "ok" ELSE "raise"

\* message_analyzer.py 74-75 and sys.exit itself: what a call of the name
\* sys.exit raises under each binding.
ExitCall(binding) ==
    IF binding = "safe_exit" THEN "RuntimeError" ELSE "SystemExit"

\* Variant: without the global statement the assignment binds a local name
\* and the module's analyzer stays None.
BindGlobal_local(current) == current

\* mcp_server.py 19-21: global analyzer; analyzer = MessageAnalyzer().
BindGlobal(current) == "set"

\* message_analyzer.py 77: sys.exit = safe_exit.
PatchExit(binding) == "safe_exit"

\* Variant: the finally clause is missing and safe_exit stays bound.
RestoreExit_leaves(binding) == binding

\* message_analyzer.py 118-119: the finally clause puts original_exit back.
RestoreExit(binding) == "original"

\* Variant: the first clause names RuntimeError alone, so a SystemExit is
\* taken by no clause (it is no Exception).
ExceptClause_noSystemExit(exc) ==
    IF exc \in {"RuntimeError", "UnicodeDecodeError", "Exception"}
    THEN "fallback" ELSE "propagate"

\* message_analyzer.py 120-131: the except clauses of fetch_messages; all
\* three run the fallback.
ExceptClause(exc) ==
    CASE exc \in {"RuntimeError", "SystemExit"} -> "fallback"
      [] exc = "UnicodeDecodeError" -> "fallback"
      [] exc = "Exception" -> "fallback"
      [] OTHER -> "propagate"

AdapterOutcomes ==
    {"ctor_raise", "get_raise", "exit_call", "system_exit", "decode_error", "rows"}

\* message_analyzer.py 85-117: the primary path on one adapter behaviour;
\* raw is what get_messages returns when it returns.
PrimaryPath(o, raw, binding, msgs) ==
    CASE o \in {"ctor_raise", "get_raise"} ->
             [messages |-> msgs, pending |-> Raise("Exception")]
      [] o = "exit_call" ->
             [messages |-> msgs, pending |-> Raise(ExitCall(binding))]
      [] o = "system_exit" ->
             [messages |-> msgs, pending |-> Raise("SystemExit")]
      [] o = "decode_error" ->
             [messages |-> msgs, pending |-> Raise("UnicodeDecodeError")]
      [] OTHER ->
             IF raw = <<>> THEN [messages |-> msgs, pending |-> Return]
             ELSE [messages |-> PrimaryCollect(CleanPrefix(raw)),
                   pending |-> IF \E i \in 1..Len(raw) : raw[i].bad
                               THEN Raise("Exception") ELSE Return]

\* What the raw-query path can meet, given the storage file.
FallbackOutcomes(file) ==
    CASE file = "missing" -> {"count_fail"}
      [] file = "denied" -> {"connect_fail"}
      [] OTHER -> {"connect_fail", "count_fail", "query_fail", "rows"}

\* Variant: the fallback reports success whenever its queries complete.
fallback_message_reading_lenient(o, table, msgs) ==
    CASE o \in {"connect_fail", "count_fail", "query_fail"} ->
             [messages |-> msgs, result |-> "false"]
      [] OTHER ->
             IF Len(table) = 0 THEN [messages |-> msgs, result |-> "true"]
             ELSE [messages |-> FallbackCollect(QueryRows(table)),
                   result |-> "true"]

\* message_analyzer.py 133-217: _fallback_message_reading on one behaviour
\* of the storage; table is the joined message table, newest first.
fallback_message_reading(o, table, msgs) ==
    CASE o \in {"connect_fail", "count_fail"} ->
             [messages |-> msgs, result |-> "false"]
      [] o = "query_fail" ->
             [messages |-> msgs, result |-> "false"]
      [] OTHER ->
             IF Len(table) = 0 THEN [messages |-> msgs, result |-> "true"]
             ELSE LET kept == FallbackCollect(QueryRows(table)) IN
                  [messages |-> kept,
                   result |-> IF kept # <<>> THEN "true" ELSE "false"]

Init ==
    /\ analyzer = "None"
    /\ messages = <<>>
    /\ sysExit = "original"
    /\ pc = "idle"
    /\ env = NoEnv
    /\ pending = NoPending
    /\ primaryOutcome = "none"
    /\ fb = NoFb
    /\ fetchResult = "none"
    /\ fetchCalls = 0
    /\ fallbackCalls = 0
    /\ escaped = "none"
    /\ loaded = <<>>
    /\ served = FALSE
    /\ last = NoLast

\* mcp_server.py 17-28 up to the call of fetch_messages, and
\* message_analyzer.py 10-17, 69-77: a tool handler calls get_analyzer; the
\* first one constructs the analyzer, binds the global and enters
\* fetch_messages, which rebinds sys.exit.
get_analyzer ==
    /\ pc = "idle"
    /\ last' = NoLast
    /\ IF analyzer = "None"
       THEN /\ analyzer' = BindGlobal(analyzer)
            /\ messages' = <<>>
            /\ fetchCalls' = fetchCalls + 1
            /\ sysExit' = PatchExit(sysExit)
            /\ pc' = "validate"
       ELSE /\ pc' = "body"
            /\ UNCHANGED <<analyzer, messages, fetchCalls, sysExit>>
    /\ UNCHANGED <<env, pending, primaryOutcome, fb, fetchResult,
                   fallbackCalls, escaped, loaded, served>>

\* message_analyzer.py 79-82: the two validations, inside the inner try.
validate ==
    /\ pc = "validate"
    /\ \E p \in Platforms, f \in Files :
          /\ env' = [platform |-> p, file |-> f]
          /\ IF validate_system(p) = "ok" /\ validate_database_access(f) = "ok"
             THEN pc' = "primary" /\ pending' = pending
             ELSE pc' = "finally" /\ pending' = Raise("Exception")
    /\ UNCHANGED <<analyzer, messages, sysExit, primaryOutcome, fb, fetchResult,
                   fetchCalls, fallbackCalls, escaped, loaded, served, last>>

\* message_analyzer.py 84-117: the adapter call and the normalization loop.
primary ==
    /\ pc = "primary"
    /\ \E o \in AdapterOutcomes :
       \E raw \in IF o = "rows" THEN SeqsUpTo(AdapterRows, MaxRows) ELSE {<<>>} :
          LET r == PrimaryPath(o, raw, sysExit, messages) IN
          /\ primaryOutcome' = o
          /\ messages' = r.messages
          /\ pending' = r.pending
    /\ pc' = "finally"
    /\ UNCHANGED <<analyzer, sysExit, env, fb, fetchResult, fetchCalls,
                   fallbackCalls, escaped, loaded, served, last>>

\* message_analyzer.py 118-131: the finally clause restores sys.exit, then
\* the function returns True or an except clause takes the exception.
finally ==
    /\ pc = "finally"
    /\ sysExit' = RestoreExit(sysExit)
    /\ IF pending.kind = "return"
       THEN /\ fetchResult' = "true"
            /\ pc' = "fetch_returned"
            /\ escaped' = escaped
       ELSE IF ExceptClause(pending.exc) = "fallback"
            THEN /\ pc' = "fallback"
                 /\ UNCHANGED <<fetchResult, escaped>>
            ELSE /\ pc' = "crashed"
                 /\ escaped' = pending.exc
                 /\ fetchResult' = fetchResult
    /\ UNCHANGED <<analyzer, messages, env, pending, primaryOutcome, fb,
                   fetchCalls, fallbackCalls, loaded, served, last>>

\* message_analyzer.py 123/127/131 and 133-217: the except clause returns
\* what _fallback_message_reading returns.
fallback ==
    /\ pc = "fallback"
    /\ \E o \in FallbackOutcomes(env.file) :
       \E table \in IF o = "rows" THEN SeqsUpTo(DbRows, MaxRows) ELSE {<<>>} :
          LET r == fallback_message_reading(o, table, messages) IN
          /\ fb' = [outcome |-> o, rows |-> QueryRows(table), result |-> r.result]
          /\ messages' = r.messages
          /\ fetchResult' = r.result
    /\ fallbackCalls' = fallbackCalls + 1
    /\ pc' = "fetch_returned"
    /\ UNCHANGED <<analyzer, sysExit, env, pending, primaryOutcome, fetchCalls,
                   escaped, loaded, served, last>>

\* mcp_server.py 22-28: back in get_analyzer, which raises when the load
\* failed and left no message, and returns the analyzer otherwise.
get_analyzer_return ==
    /\ pc = "fetch_returned"
    /\ pc' = IF fetchResult = "false" /\ messages = <<>> THEN "raised" ELSE "body"
    /\ loaded' = messages
    /\ env' = NoEnv
    /\ pending' = NoPending
    /\ primaryOutcome' = "none"
    /\ fb' = NoFb
    /\ UNCHANGED <<analyzer, messages, sysExit, fetchResult, fetchCalls,
                   fallbackCalls, escaped, served, last>>

\* ------------------------------------------------------------ tool handlers
\* The arguments the invocations of the model carry.
ArgRange == -1..MaxArg
TopNs == ArgRange \cup {DefaultTopN + 1}
ContactQueries == { <<"5", "5", "5">>, <<"z", "z">>, <<" ", "B", "@", "X">>, <<>> }
SearchQueries == { <<"C", "A", "T">>, <<"y", "o", "u">>, <<"z", "z">> }
ContactNames == { <<"b", "@", "x">>, UnknownStr.s, <<"z", "z">> }
DaysBack == { None, PyInt(<<"7">>) }

\* A handler returns: the invocation is recorded with what the tool returned
\* and what the analyzer method it called returned.
ToolReturn(tool, n, q, d, result, method) ==
    /\ pc' = "idle"
    /\ served' = TRUE
    /\ last' = [tool |-> tool, n |-> n, q |-> q, d |-> d,
                result |-> result, method |-> method]
    /\ UNCHANGED <<analyzer, sysExit, env, pending, primaryOutcome, fb, fetchResult,
                   fetchCalls, fallbackCalls, escaped, loaded>>

\* mcp_server.py 30-42
get_basic_statistics ==
    /\ pc \in {"body", "raised"}
    /\ LET method == IF pc = "raised" THEN NoMethod ELSE basic_stats(messages) IN
       ToolReturn("get_basic_statistics", 0, <<>>, None,
                  IF pc = "raised" THEN ErrorDict(LoadFailedText) ELSE FromMethod(method),
                  method)
    /\ messages' = messages

\* mcp_server.py 44-59
get_word_frequency ==
    /\ pc \in {"body", "raised"}
    /\ \E top_n \in TopNs :
          ToolReturn("get_word_frequency", top_n, <<>>, None,
                     IF pc = "raised" THEN ErrorDict(LoadFailedText)
                     ELSE get_word_frequency_result(messages, top_n),
                     IF pc = "raised" THEN NoMethod
                     ELSE word_frequency(messages, DefaultTopN))
    /\ messages' = messages

\* mcp_server.py 61-76
get_conversation_analysis ==
    /\ pc \in {"body", "raised"}
    /\ \E top_n \in ArgRange :
          LET method == IF pc = "raised" THEN NoMethod
                        ELSE conversation_stats(messages, top_n) IN
          ToolReturn("get_conversation_analysis", top_n, <<>>, None,
                     IF pc = "raised" THEN ErrorDict(LoadFailedText)
                     ELSE FromMethod(method),
                     method)
    /\ messages' = messages

\* mcp_server.py 78-106
list_contacts ==
    /\ pc \in {"body", "raised"}
    /\ \E limit \in ArgRange :
          ToolReturn("list_contacts", limit, <<>>, None,
                     IF pc = "raised" THEN ErrorList(LoadFailedText)
                     ELSE list_contacts_result(messages, limit),
                     NoMethod)
    /\ messages' = messages

\* mcp_server.py 108-141
search_messages ==
    /\ pc \in {"body", "raised"}
    /\ \E query \in SearchQueries, limit \in ArgRange :
          ToolReturn("search_messages", limit, query, None,
                     IF pc = "raised" THEN ErrorList(LoadFailedText)
                     ELSE search_messages_result(messages, query, limit),
                     NoMethod)
    /\ messages' = messages

\* mcp_server.py 143-184
get_contact_statistics ==
    /\ pc \in {"body", "raised"}
    /\ \E contact \in ContactNames :
          ToolReturn("get_contact_statistics", 0, contact, None,
                     IF pc = "raised" THEN ErrorDict(LoadFailedText)
                     ELSE get_contact_statistics_result(messages, contact),
                     NoMethod)
    /\ messages' = messages

\* Variant: the handler narrows self.messages to the matched messages.
tool_get_conversation_narrows ==
    /\ pc \in {"body", "raised"}
    /\ \E contact \in ContactQueries, limit \in ArgRange \cup {MaxLimit + 1},
          days_back \in DaysBack :
          LET method == IF pc = "raised" \/ limit > MaxLimit THEN NoMethod
                        ELSE get_conversation(messages, contact, limit, days_back) IN
          /\ ToolReturn("get_conversation", limit, contact, days_back,
                        IF pc = "raised" THEN ErrorDict(LoadFailedText)
                        ELSE get_conversation_tool_result(method, limit),
                        method)
          /\ messages' = IF method.kind = "ok"
                         THEN SelectSeq(messages,
                                        LAMBDA m : Matches(m, Strip(Lower(contact))))
                         ELSE messages

\* mcp_server.py 186-218 (the tool get_conversation)
tool_get_conversation ==
    /\ pc \in {"body", "raised"}
    /\ \E contact \in ContactQueries, limit \in ArgRange \cup {MaxLimit + 1},
          days_back \in DaysBack :
          LET method == IF pc = "raised" \/ limit > MaxLimit THEN NoMethod
                        ELSE get_conversation(messages, contact, limit, days_back) IN
          ToolReturn("get_conversation", limit, contact, days_back,
                     IF pc = "raised" THEN ErrorDict(LoadFailedText)
                     ELSE get_conversation_tool_result(method, limit),
                     method)
    /\ messages' = messages

Next ==
    \/ get_analyzer
    \/ validate
    \/ primary
    \/ finally
    \/ fallback
    \/ get_analyzer_return
    \/ get_basic_statistics
    \/ get_word_frequency
    \/ get_conversation_analysis
    \/ list_contacts
    \/ search_messages
    \/ get_contact_statistics
    \/ tool_get_conversation

Spec == Init /\ [][Next]_vars

\* ------------------------------------------------- direct method calls
\* The analyzer's methods called on a loaded collection, as main.py 56-73
\* and the tool handlers call them. The collection is one a load can leave:
\* the normalization of either path over rows of the source.
MaxMsgs == 3
DefaultLimit == 100

\* Rows of one conversation partner with dates below and above the default
\* sort key, of a second partner, and of no partner.
MethodRows ==
    { Row(<<PhoneA, TextHi, PyInt(<<"5">>), IMessage, Acct, PyInt(<<"1">>)>>),
      Row(<<PhoneA, TextOk, PyInt(<<"1", "2">>), IMessage, Acct, PyInt(<<"0">>)>>),
      Row(<<PhoneA, None, None, None, None, None>>),
      Row(<<MailB, TextCat, PyInt(<<"1", "2">>), IMessage, Acct, PyInt(<<"0">>)>>),
      Row(<<None, TextHi, PyInt(<<"5">>), IMessage, Acct, PyInt(<<"0">>)>>) }

Collections ==
    { PrimaryCollect(rows) : rows \in SeqsUpTo(MethodRows, MaxMsgs) }
    \cup { FallbackCollect(rows) : rows \in SeqsUpTo(MethodRows, MaxMsgs) }

MethodContacts == ContactQueries \cup { <<"t", "o", " ", "b", "@", "x">> }
Limits == ArgRange \cup {DefaultLimit}

MethodInit ==
    /\ analyzer = "set"
    /\ messages \in Collections
    /\ sysExit = "original"
    /\ pc = "direct"
    /\ env = NoEnv
    /\ pending = NoPending
    /\ primaryOutcome = "none"
    /\ fb = NoFb
    /\ fetchResult = "true"
    /\ fetchCalls = 1
    /\ fallbackCalls = 0
    /\ escaped = "none"
    /\ loaded = messages
    /\ served = FALSE
    /\ last = NoLast

\* A method returns (or raises) to its caller: the call is recorded with
\* its arguments and what it gave back.
MethodReturn(method, n, q, d, value) ==
    /\ pc = "direct"
    /\ pc' = "returned"
    /\ last' = [tool |-> method, n |-> n, q |-> q, d |-> d,
                result |-> FromMethod(value), method |-> value]
    /\ UNCHANGED <<analyzer, messages, sysExit, env, pending, primaryOutcome,
                   fb, fetchResult, fetchCalls, fallbackCalls, escaped, loaded,
                   served>>

\* The caller goes on to its next call.
next_call ==
    /\ pc = "returned"
    /\ pc' = "direct"
    /\ last' = NoLast
    /\ UNCHANGED <<analyzer, messages, sysExit, env, pending, primaryOutcome,
                   fb, fetchResult, fetchCalls, fallbackCalls, escaped, loaded,
                   served>>

\* message_analyzer.py 379: analyzer.get_conversation(contact, limit, days_back)
call_get_conversation ==
    \E contact \in MethodContacts, limit \in Limits, days_back \in DaysBack :
        MethodReturn("get_conversation", limit, contact, days_back,
                     get_conversation(messages, contact, limit, days_back))

\* message_analyzer.py 348: analyzer.conversation_stats(top_n)
call_conversation_stats ==
    \E top_n \in ArgRange :
        MethodReturn("conversation_stats", top_n, <<>>, None,
                     conversation_stats(messages, top_n))

\* message_analyzer.py 256: analyzer.word_frequency(top_n)
call_word_frequency ==
    \E top_n \in 0..MaxArg :
        MethodReturn("word_frequency", top_n, <<>>, None,
                     word_frequency(messages, top_n))

MethodNext ==
    \/ call_get_conversation
    \/ call_conversation_stats
    \/ call_word_frequency
    \/ next_call

MethodSpec == MethodInit /\ [][MethodNext]_vars

\* -------------------------------------------------- basic_stats, called
\* Collections of many senders: the message at position i is from the
\* sender of that position or from one sender that turns up anywhere; the
\* second and the third may also be from no sender (an identifier that is
\* 'Unknown' or None).
MaxSenders == 7
Roaming == Str(<<"z">>)
SenderAt(i) == Str(<<AsciiChars[LowerFirst + i - 1]>>)
SenderRows(i) ==
    { Row(<<h, TextHi, PyInt(<<"5">>), IMessage, Acct, PyInt(<<"0">>)>>) :
         h \in {SenderAt(i), Roaming}
                  \cup (IF i \in {2, 3} THEN {UnknownStr, None} ELSE {}) }
RECURSIVE SenderSeqs(_)
SenderSeqs(k) ==
    IF k = 0 THEN {<<>>}
    ELSE {Append(rows, r) : rows \in SenderSeqs(k - 1), r \in SenderRows(k)}
SenderCollections ==
    { PrimaryCollect(rows) : rows \in UNION {SenderSeqs(k) : k \in 0..MaxSenders} }

StatsInit ==
    /\ analyzer = "set"
    /\ messages \in SenderCollections
    /\ sysExit = "original"
    /\ pc = "direct"
    /\ env = NoEnv
    /\ pending = NoPending
    /\ primaryOutcome = "none"
    /\ fb = NoFb
    /\ fetchResult = "true"
    /\ fetchCalls = 1
    /\ fallbackCalls = 0
    /\ escaped = "none"
    /\ loaded = messages
    /\ served = FALSE
    /\ last = NoLast

\* message_analyzer.py 227: analyzer.basic_stats()
call_basic_stats ==
    MethodReturn("basic_stats", 0, <<>>, None, basic_stats(messages))

StatsNext ==
    \/ call_basic_stats
    \/ next_call

StatsSpec == StatsInit /\ [][StatsNext]_vars

\* ------------------------------------- tools on a loaded collection
\* The server after a load that succeeded: the analyzer is bound and holds
\* a collection with texts of many and of few words, and tools are invoked.
ToolRows ==
    { Row(<<PhoneA, TextLong, PyInt(<<"5">>), IMessage, Acct, PyInt(<<"1">>)>>),
      Row(<<PhoneA, TextHi, PyInt(<<"5">>), IMessage, Acct, PyInt(<<"1">>)>>),
      Row(<<MailB, TextCat, PyInt(<<"1", "2">>), IMessage, Acct, PyInt(<<"0">>)>>),
      Row(<<PhoneA, None, None, None, None, None>>) }

ToolCollections == { PrimaryCollect(rows) : rows \in SeqsUpTo(ToolRows, MaxRows) }

ToolInit ==
    /\ analyzer = "set"
    /\ messages \in ToolCollections
    /\ sysExit = "original"
    /\ pc = "idle"
    /\ env = NoEnv
    /\ pending = NoPending
    /\ primaryOutcome = "none"
    /\ fb = NoFb
    /\ fetchResult = "true"
    /\ fetchCalls = 1
    /\ fallbackCalls = 0
    /\ escaped = "none"
    /\ loaded = messages
    /\ served = FALSE
    /\ last = NoLast

ToolNext ==
    \/ get_analyzer
    \/ get_word_frequency
    \/ search_messages

ToolSpec == ToolInit /\ [][ToolNext]_vars

\* --------------------------------------------- the formatter, called
\* Identifiers around the phone pattern: a country-code prefix (or none),
\* then ten digits of which up to MaxEdits are replaced by another digit, a
\* letter or an '@', cut to nine, left at ten or extended to eleven
\* characters; and the identifiers that stand for no sender.
MaxEdits == 2
BaseDigits == <<"2", "3", "4", "5", "6", "7", "8", "9", "0", "1">>
EditChars == {"0", "a", "@"}
Prefixes == { <<"+", "1">>, <<"+", "4">>, <<>> }
RECURSIVE Edited(_)
Edited(k) ==
    IF k = 0 THEN {BaseDigits}
    ELSE Edited(k - 1)
         \cup {[b EXCEPT ![i] = c] : b \in Edited(k - 1), i \in 1..Len(BaseDigits),
                                      c \in EditChars}
Bodies ==
    UNION { {SubSeq(b, 1, Len(b) - 1), b, Append(b, "7")} : b \in Edited(MaxEdits) }
Identifiers ==
    {Str(p \o b) : p \in Prefixes, b \in Bodies} \cup {None, EmptyStr, UnknownStr}

FormatInit ==
    /\ analyzer = "set"
    /\ messages = <<>>
    /\ sysExit = "original"
    /\ pc = "direct"
    /\ env = NoEnv
    /\ pending = NoPending
    /\ primaryOutcome = "none"
    /\ fb = NoFb
    /\ fetchResult = "none"
    /\ fetchCalls = 0
    /\ fallbackCalls = 0
    /\ escaped = "none"
    /\ loaded = <<>>
    /\ served = FALSE
    /\ last = NoLast

\* message_analyzer.py 49: analyzer._format_phone_number(handle_id)
call_format_phone_number ==
    \E handle_id \in Identifiers :
        MethodReturn("_format_phone_number", 0, handle_id, None,
                     [kind |-> "ok", value |-> format_phone_number(handle_id)])

FormatNext ==
    \/ call_format_phone_number
    \/ next_call

FormatSpec == FormatInit /\ [][FormatNext]_vars

\* ------------------------------------------------------------ properties
\* An identifier is present when it is neither null nor empty nor 'Unknown'.
Present(h) == Truthy(h) /\ h # UnknownStr

\* A message that carries neither an identifier nor a text.
PureNoise(m) == ~Present(m.handle_id) /\ ~Truthy(m.text)

MsgEq(a, b) ==
    /\ PyEq(a.handle_id, b.handle_id)
    /\ PyEq(a.text, b.text)
    /\ PyEq(a.date, b.date)
    /\ PyEq(a.service, b.service)
    /\ PyEq(a.account, b.account)
    /\ PyEq(a.is_from_me, b.is_from_me)

SameCollection(a, b) ==
    /\ Len(a) = Len(b)
    /\ \A i \in 1..Len(a) : MsgEq(a[i], b[i])

\* A row with six fields, a present identifier, a non-empty str text, a
\* non-empty service and account, and a direction of 0/1 or a boolean.
WellFormedRow(r) ==
    /\ ~r.bad
    /\ Len(r.f) = 6
    /\ Present(r.f[1])
    /\ r.f[2].t = "str" /\ Truthy(r.f[2])
    /\ Truthy(r.f[4])
    /\ Truthy(r.f[5])
    /\ r.f[6].t \in {"int", "bool"} /\ r.f[6].s \in {<<"0">>, <<"1">>}

\* The fallback keeps a row when it does not raise and its identifier is
\* present, stated on the row itself.
RowRetained(r) == ~r.bad /\ Present(r.f[1])

PrimaryFailed == primaryOutcome # "none" /\ pending.kind = "raise"
ValidationFailed ==
    env # NoEnv /\ (env.platform # "darwin" \/ env.file # "ok")
FallbackFailedOutright ==
    fb.outcome \in {"connect_fail", "count_fail", "query_fail"}

\* C1: whenever the primary path fails after validation (adapter error,
\* intercepted exit, SystemExit, decoding error, a row that raises), the
\* fallback runs exactly once, fetch_messages returns what the fallback
\* returned, and no exception leaves fetch_messages.
C1_PrimaryFailureFallsBack ==
    /\ pc # "crashed" /\ escaped = "none"
    /\ (PrimaryFailed /\ pc = "fallback") => fallbackCalls = 0
    /\ (PrimaryFailed /\ pc = "fetch_returned") =>
          /\ fallbackCalls = 1
          /\ fb.outcome # "none"
          /\ fetchResult = fb.result

C1_Witness ==
    /\ pc = "fetch_returned"
    /\ primaryOutcome = "system_exit"
    /\ fallbackCalls = 1
    /\ fetchResult = "true"

\* C2 (as claimed): when the platform or storage-file validation fails, no
\* acquisition path is attempted afterwards: the fallback is not run and
\* the collection stays empty.
C2_ValidationFailureIsFatal ==
    ValidationFailed =>
        /\ pc # "fallback"
        /\ fallbackCalls = 0
        /\ messages = <<>>

C4_ExitInterceptionScoped ==
    /\ pc \notin {"validate", "primary", "finally"} => sysExit = "original"
    /\ pc \in {"validate", "primary"} => sysExit = "safe_exit"
    /\ primaryOutcome = "exit_call" =>
          /\ pending = Raise("RuntimeError")
          /\ pc \in {"finally", "fallback", "fetch_returned"}
          /\ pc = "fetch_returned" => fallbackCalls = 1
    /\ pc # "crashed"

C4_Witness ==
    /\ primaryOutcome = "exit_call"
    /\ pc = "fetch_returned"
    /\ sysExit = "original"
    /\ fallbackCalls = 1

\* C5 (as claimed): for every sequence of source rows (none of which
\* raises), the collection the fallback produces equals the collection the
\* primary path produces for the same rows.
C5_FallbackEqualsPrimary ==
    (/\ pc = "fetch_returned"
     /\ fb.outcome = "rows"
     /\ \A i \in 1..Len(fb.rows) : ~fb.rows[i].bad)
    => SameCollection(messages, PrimaryCollect(fb.rows))

\* C5 (amended): for every non-empty sequence of at most 10000 rows that
\* each have six fields, a present identifier, a non-empty str text, a
\* non-empty service and account and a direction of 0/1 or a boolean, the
\* fallback's collection equals the primary path's for the same rows.
C5_FallbackEqualsPrimaryOnWellFormed ==
    (/\ pc = "fetch_returned"
     /\ fb.outcome = "rows"
     /\ fb.rows # <<>>
     /\ Len(fb.rows) <= FallbackLimit
     /\ \A i \in 1..Len(fb.rows) : WellFormedRow(fb.rows[i]))
    => SameCollection(messages, PrimaryCollect(fb.rows))

C5_Witness ==
    /\ pc = "fetch_returned"
    /\ PrimaryFailed
    /\ fb.outcome = "rows"
    /\ Len(fb.rows) = 2
    /\ fb.rows[1] # fb.rows[2]
    /\ \A i \in 1..Len(fb.rows) : WellFormedRow(fb.rows[i])
    /\ Len(messages) = 2

\* C6 (as claimed): after a load by either path no message of the
\* collection is pure noise (identifier missing, null, empty or 'Unknown'
\* and text absent or empty).
C6_NoPureNoise ==
    fetchResult # "none" =>
        \A i \in 1..Len(messages) : ~PureNoise(messages[i])

LoadFailed == fetchResult = "false" /\ loaded = <<>> /\ messages = <<>>

\* C8: over any sequence of tool invocations the collection is loaded at
\* most once: fetch_messages is called by the first invocation only, and a
\* later invocation never enters it, whether the load succeeded or failed.
C8_LoadedAtMostOnce ==
    /\ fetchCalls <= 1
    /\ served => /\ fetchCalls = 1
                 /\ analyzer = "set"
                 /\ pc \in {"idle", "body"}

C8_Witness ==
    /\ served
    /\ pc = "body"
    /\ fetchResult = "false"
    /\ fetchCalls = 1

\* C9 (as claimed): in a process whose load failed (fetch_messages returned
\* false, collection empty) every invocation of every tool, the first and
\* every later one, returns a result with an error field (a list with an
\* element that has one).  Stated for the invocations whose top_n or limit
\* is 1 or more, where it already fails.
C9_FailedLoadAlwaysReportsError ==
    (/\ pc = "idle" /\ served /\ LoadFailed
     /\ (last.tool \in {"get_basic_statistics", "get_contact_statistics"}
         \/ last.n >= 1))
    => last.result.has_error

\* C10: basic_stats, word_frequency, conversation_analysis,
\* conversation_stats and get_conversation leave the collection as the load
\* left it, so each call returns what the method returns on the loaded
\* collection for its arguments, whatever calls came before.
C10_ReadsLeaveCollection ==
    (fetchResult # "none" /\ pc \in {"idle", "body", "raised"}) =>
        /\ messages = loaded
        /\ (pc = "idle" /\ last.method # NoMethod) =>
              last.method =
                 CASE last.tool = "get_basic_statistics" -> basic_stats(loaded)
                   [] last.tool = "get_word_frequency" ->
                          word_frequency(loaded, DefaultTopN)
                   [] last.tool = "get_conversation_analysis" ->
                          conversation_stats(loaded, last.n)
                   [] last.tool = "get_conversation" ->
                          get_conversation(loaded, last.q, last.n, last.d)

C10_Witness ==
    /\ pc = "idle"
    /\ served
    /\ last.tool = "get_conversation"
    /\ last.method.kind = "ok"
    /\ Len(last.method.messages) = 1
    /\ Len(messages) = 2

\* ------------------------------------------- conversation retrieval claims
Occurrences(items, x) == Cardinality({i \in 1..Len(items) : items[i] = x})
Returned(method) == pc = "returned" /\ last.tool = method
Answered(method) == Returned(method) /\ last.method.kind = "ok"

\* The query of the recorded call, lower-cased and trimmed.
NormalizedQuery == Strip(Lower(last.q))

\* The specification's test of a message against a normalized query q.
QueryInIdentifier(m, q) ==
    \/ IsSubstr(q, Lower(format_phone_number(m.handle_id)))
    \/ IsSubstr(q, Lower(m.handle_id.s))
IdentifierInQuery(m, q) ==
    \/ IsSubstr(Lower(format_phone_number(m.handle_id)), q)
    \/ IsSubstr(Lower(m.handle_id.s), q)
BidirectionalTest(m, q) == QueryInIdentifier(m, q) \/ IdentifierInQuery(m, q)

\* The entries of the messages of the collection that pass the test, in
\* collection order.
Passing ==
    LET pass == SelectSeq(messages, LAMBDA m : BidirectionalTest(m, NormalizedQuery))
    IN [i \in 1..Len(pass) |-> ConvEntry(pass[i])]

\* C11: whenever get_conversation gives a result, the matched set is the set
\* of messages passing the bidirectional substring test on the lower-cased,
\* trimmed query: the "no conversation" error is returned exactly when no
\* message passes, every returned message is the entry of a passing message,
\* and with a limit not below the collection size the returned messages are
\* exactly the entries of the passing messages, each as often as it passes.
C11_MatchIsBidirectionalSubstring ==
    (Returned("get_conversation") /\ last.method.kind # "raised") =>
        /\ (last.method.kind = "error") <=> (Passing = <<>>)
        /\ last.method.kind = "ok" =>
              LET shown == last.method.messages IN
              /\ \A i \in 1..Len(shown) :
                    Occurrences(shown, shown[i]) <= Occurrences(Passing, shown[i])
              /\ Len(messages) <= last.n =>
                    \A i \in 1..Len(Passing) :
                        Occurrences(shown, Passing[i]) = Occurrences(Passing, Passing[i])

\* C11 witness: a call with a limit not below the collection size whose
\* query contains the identifier of one message, which is returned, while
\* another message of the collection fails the test.
C11_Witness ==
    /\ Answered("get_conversation")
    /\ Len(messages) <= last.n
    /\ \E i, j \in 1..Len(messages) :
          /\ IdentifierInQuery(messages[i], NormalizedQuery)
          /\ ~QueryInIdentifier(messages[i], NormalizedQuery)
          /\ ConvEntry(messages[i]) \in {last.method.messages[k] :
                                            k \in 1..Len(last.method.messages)}
          /\ ~BidirectionalTest(messages[j], NormalizedQuery)

\* C12: get_conversation never returns an empty success: when no message of
\* a non-empty collection passes the test the result is an error without a
\* messages field, and for every query and every limit a result with a
\* messages field holds at least one message.
C12_NeverEmptySuccess ==
    (Returned("get_conversation") /\ last.method.kind # "raised") =>
        /\ (messages # <<>> /\ Passing = <<>>) => last.method.kind = "error"
        /\ last.method.kind = "ok" => last.method.messages # <<>>

HasTimestamp(e) == e.timestamp # None

\* C13: the messages get_conversation returns are in ascending
\* string-lexicographic order of their timestamp token, and every message
\* with an absent timestamp comes before every message that has one,
\* whatever the timestamp values are.
C13_AscendingAbsentFirst ==
    Answered("get_conversation") =>
        LET shown == last.method.messages IN
        \A i, j \in 1..Len(shown) :
            i < j =>
                /\ (HasTimestamp(shown[i]) /\ HasTimestamp(shown[j])) =>
                      ~StrLess(shown[j].timestamp.s, shown[i].timestamp.s)
                /\ ~(HasTimestamp(shown[i]) /\ ~HasTimestamp(shown[j]))

\* The matched messages in ascending order of the sort key.
SortedPassing == SortByTimestamp(Passing)

\* C14: for every limit, get_conversation returns at most limit messages:
\* the last limit messages of the ascending sorted matched sequence, in that
\* order, when the matched set has more than limit messages, and all of the
\* matched messages when it has at most limit. Stated for the limits that
\* are not negative.
C14_AtMostLimitMostRecent ==
    (Answered("get_conversation") /\ last.n >= 0) =>
        LET shown == last.method.messages
            total == Len(SortedPassing)
        IN /\ Len(shown) <= last.n
           /\ IF total > last.n
              THEN shown = SubSeq(SortedPassing, total - last.n + 1, total)
              ELSE shown = SortedPassing

\* C15: the messages_limited flag of a get_conversation result is true if
\* and only if truncation occurred: the matched set had more messages than
\* limit and some matched messages were left out of the result. Stated for
\* the limits of at least one.
C15_LimitedIffTruncated ==
    (Answered("get_conversation") /\ last.n >= 1) =>
        (last.method.messages_limited
            <=> (/\ Len(Passing) > last.n
                 /\ Len(last.method.messages) < Len(Passing)))

TopConversations == last.method.top_conversations

\* Percentages are kept in tenths: 100.0 is 1000, 0.1 is 1.
Distance(a, b) == IF a >= b THEN a - b ELSE b - a

\* C17: for every contact conversation_stats returns, my_messages +
\* their_messages equals total_messages, and my_percentage +
\* their_percentage is within 0.1 of 100.
C17_CountsAndPercentagesAddUp ==
    Answered("conversation_stats") =>
        \A i \in 1..Len(TopConversations) :
            LET c == TopConversations[i] IN
            /\ c.my_messages + c.their_messages = c.total_messages
            /\ Distance(c.my_percentage + c.their_percentage, 1000) <= 1

\* C17 witness: a returned contact whose percentages are both rounded
\* (one of three messages is mine: 33.3 and 66.7).
C17_Witness ==
    /\ Answered("conversation_stats")
    /\ \E i \in 1..Len(TopConversations) :
          /\ TopConversations[i].total_messages = 3
          /\ TopConversations[i].my_messages = 1
          /\ TopConversations[i].my_percentage = 333
          /\ TopConversations[i].their_percentage = 667

\* The formatted sender of every message of the collection, and where a
\* sender occurs first.
Contacts == Senders(messages)
FirstOccurrence(sender) ==
    CHOOSE i \in 1..Len(Contacts) :
        Contacts[i] = sender /\ \A j \in 1..(i - 1) : Contacts[j] # sender
Returned_contacts == {TopConversations[i].contact : i \in 1..Len(TopConversations)}

\* C18: conversation_stats(top_n) groups the messages by formatted sender
\* (each returned contact is a sender of the collection, returned once, its
\* total the number of its messages), returns at most top_n contacts, ranked
\* by total descending with equal totals in order of first occurrence, and
\* leaves out no contact with a larger total than a returned one. The
\* number of contacts is stated for a top_n that is a count (not negative).
C18_TopContactsRanked ==
    Answered("conversation_stats") =>
        /\ last.n >= 0 => Len(TopConversations) <= last.n
        /\ \A i \in 1..Len(TopConversations) :
              LET c == TopConversations[i] IN
              /\ Occurrences(Contacts, c.contact) >= 1
              /\ c.total_messages = Occurrences(Contacts, c.contact)
              /\ \A j \in 1..Len(TopConversations) :
                    i < j =>
                       LET later == TopConversations[j] IN
                       /\ c.contact # later.contact
                       /\ c.total_messages >= later.total_messages
                       /\ c.total_messages = later.total_messages =>
                             FirstOccurrence(c.contact) < FirstOccurrence(later.contact)
              /\ \A k \in 1..Len(Contacts) :
                    Contacts[k] \notin Returned_contacts =>
                        Occurrences(Contacts, Contacts[k]) <= c.total_messages

\* C18 witness: the one contact returned for top_n = 1 has the larger total
\* although another contact, left out, occurs first in the collection.
C18_Witness ==
    /\ Answered("conversation_stats")
    /\ last.n = 1
    /\ Len(TopConversations) = 1
    /\ \E k \in 1..Len(Contacts) :
          /\ Contacts[k] \notin Returned_contacts
          /\ k < FirstOccurrence(TopConversations[1].contact)
          /\ Occurrences(Contacts, Contacts[k]) < TopConversations[1].total_messages

\* C19: in conversation_stats, who_talks_more is 'Me' exactly when the
\* contact's my_messages is strictly more than half of its total_messages,
\* and 'Them' otherwise; a contact with equal counts of mine and theirs is
\* labelled 'Them', and no contact is labelled 'Equal'.
C19_WhoTalksMore ==
    Answered("conversation_stats") =>
        \A i \in 1..Len(TopConversations) :
            LET c == TopConversations[i] IN
            /\ c.who_talks_more \in {"Me", "Them"}
            /\ c.who_talks_more = "Me" <=> 2 * c.my_messages > c.total_messages
            /\ c.my_messages = c.their_messages => c.who_talks_more = "Them"

\* C19 witness: a returned contact has as many messages of mine as of
\* theirs (one each) and is labelled 'Them'.
C19_Witness ==
    /\ Answered("conversation_stats")
    /\ \E i \in 1..Len(TopConversations) :
          /\ TopConversations[i].my_messages = 1
          /\ TopConversations[i].their_messages = 1
          /\ TopConversations[i].who_talks_more = "Them"

\* -------------------------------------------------- word_frequency claims
\* The <<token, count>> entries word_frequency returned, in order.
Frequencies == last.method.items

\* A message whose lower-cased text contains an attachment/reaction
\* artifact substring.
HasArtifact(m) ==
    /\ Truthy(m.text)
    /\ \E pattern \in attachment_patterns : IsSubstr(pattern, Lower(m.text.s))

\* The blank-separated tokens of a message's lower-cased text, the four
\* punctuation marks removed.
TokensOf(m) ==
    IF Truthy(m.text)
    THEN Split(Remove(Lower(m.text.s), {",", ".", "!", "?"}))
    ELSE <<>>

\* How often a token occurs in the messages without an artifact, and where
\* it occurs first among them: <<message, position in the message>>.
CleanOccurrences(token) ==
    Sum([i \in 1..Len(messages) |->
            IF HasArtifact(messages[i]) THEN 0
            ELSE Occurrences(TokensOf(messages[i]), token)])
SeenIn(token, i) ==
    ~HasArtifact(messages[i]) /\ Occurrences(TokensOf(messages[i]), token) > 0
FirstSeen(token) ==
    LET i == CHOOSE i \in 1..Len(messages) :
                 SeenIn(token, i) /\ \A j \in 1..(i - 1) : ~SeenIn(token, j)
        words == TokensOf(messages[i])
        k == CHOOSE k \in 1..Len(words) :
                 words[k] = token /\ \A l \in 1..(k - 1) : words[l] # token
    IN <<i, k>>
SeenBefore(a, b) ==
    \/ FirstSeen(a)[1] < FirstSeen(b)[1]
    \/ FirstSeen(a)[1] = FirstSeen(b)[1] /\ FirstSeen(a)[2] < FirstSeen(b)[2]

\* C20: word_frequency(top_n) returns at most top_n entries; every returned
\* token is lower-case, longer than 2 characters and no stop word; its count
\* is the number of its occurrences in the messages whose lower-cased text
\* contains no attachment/reaction artifact (nothing is counted from the
\* others); the counts are non-increasing along the returned order and
\* tokens of equal count are in first-encountered order.
C20_WordFrequencyFiltersAndRanks ==
    Answered("word_frequency") =>
        /\ Len(Frequencies) <= last.n
        /\ \A i \in 1..Len(Frequencies) :
              LET token == Frequencies[i][1]
                  count == Frequencies[i][2]
              IN /\ Lower(token) = token
                 /\ Len(token) > 2
                 /\ token \notin stop_words
                 /\ count >= 1
                 /\ count = CleanOccurrences(token)
                 /\ \A j \in 1..Len(Frequencies) :
                       i < j =>
                          /\ count >= Frequencies[j][2]
                          /\ count = Frequencies[j][2] =>
                                SeenBefore(token, Frequencies[j][1])

\* C20 witness: two tokens of equal count are returned, from a collection
\* whose texts also hold an upper-case letter, a stop word and punctuation,
\* and a message with an artifact.
C20_Witness ==
    /\ Answered("word_frequency")
    /\ Len(Frequencies) = 2
    /\ Frequencies[1][2] = Frequencies[2][2]
    /\ \E i \in 1..Len(messages) : HasArtifact(messages[i])
    /\ \E i \in 1..Len(messages) :
          /\ ~HasArtifact(messages[i])
          /\ \E k \in 1..Len(TokensOf(messages[i])) :
                TokensOf(messages[i])[k] \in stop_words
          /\ Lower(messages[i].text.s) # messages[i].text.s

\* ----------------------------------------------------- basic_stats claims
\* The <<sender, count>> entries of top_senders, in order.
TopSenders == last.method.top_senders
DistinctContacts == {Contacts[i] : i \in 1..Len(Contacts)}

\* C21: on a non-empty collection basic_stats returns total_messages equal
\* to the collection size, unique_senders equal to the number of distinct
\* formatted senders, and top_senders holding the (at most 5) senders of the
\* highest message counts, each once with its count, in descending count
\* order with equal counts in first-encountered order; on an empty
\* collection it returns the 'no messages' result and does not raise.
C21_BasicStats ==
    Returned("basic_stats") =>
        IF messages = <<>>
        THEN last.method = [kind |-> "error", error |-> "No messages loaded"]
        ELSE /\ last.method.kind = "ok"
             /\ last.method.total_messages = Len(messages)
             /\ last.method.unique_senders = Cardinality(DistinctContacts)
             /\ Len(TopSenders) = Min(5, Cardinality(DistinctContacts))
             /\ \A i \in 1..Len(TopSenders) : TopSenders[i][1] \in DistinctContacts
             /\ \A i \in 1..Len(TopSenders) :
                   LET sender == TopSenders[i][1]
                       count == TopSenders[i][2]
                   IN /\ count = Occurrences(Contacts, sender)
                      /\ \A j \in 1..Len(TopSenders) :
                            i < j =>
                               /\ sender # TopSenders[j][1]
                               /\ count >= TopSenders[j][2]
                               /\ count = TopSenders[j][2] =>
                                     FirstOccurrence(sender)
                                         < FirstOccurrence(TopSenders[j][1])
                      /\ \A other \in DistinctContacts :
                            other \notin {TopSenders[k][1] : k \in 1..Len(TopSenders)} =>
                                Occurrences(Contacts, other) <= count

\* C21 witness: a collection of more than 5 formatted senders, two raw
\* identifiers of which format to the same sender; the first of the 5
\* returned has the highest count although it is not the first encountered,
\* and senders of equal count follow.
C21_Witness ==
    /\ Answered("basic_stats")
    /\ Cardinality(DistinctContacts) > 5
    /\ Len(TopSenders) = 5
    /\ FirstOccurrence(TopSenders[1][1]) > 1
    /\ TopSenders[1][2] > TopSenders[2][2]
    /\ TopSenders[2][2] = TopSenders[3][2]
    /\ \E i, j \in 1..Len(messages) :
          /\ messages[i].handle_id # messages[j].handle_id
          /\ Contacts[i] = Contacts[j]

\* ------------------------------------------------------- formatter claims
\* The identifier the formatter was given (a str) and what it returned.
Formatted == Returned("_format_phone_number") /\ last.q.t = "str"
Given == last.q.s
Output == last.method.value

IsDigit(c) == c \in {"0", "1", "2", "3", "4", "5", "6", "7", "8", "9"}
Has(cs, c) == \E i \in 1..Len(cs) : cs[i] = c

\* '+1' followed by exactly ten digits.
PhonePattern(h) ==
    /\ Len(h) = 12
    /\ h[1] = "+" /\ h[2] = "1"
    /\ \A i \in 3..12 : IsDigit(h[i])

\* C22: for every identifier made of '+1' and exactly ten digits the
\* formatter returns '+1 (AAA) BBB-CCCC', AAA, BBB and CCCC the digits 3-5,
\* 6-8 and 9-12 of the identifier in their order, so that removing the
\* added blanks, parentheses and hyphen gives the identifier back.
C22_PhoneFormatKeepsDigits ==
    (Formatted /\ PhonePattern(Given)) =>
        /\ Len(Output) = 17
        /\ SubSeq(Output, 1, 4) = <<"+", "1", " ", "(">>
        /\ \A i \in 3..5 : Output[i + 2] = Given[i]
        /\ SubSeq(Output, 8, 9) = <<")", " ">>
        /\ \A i \in 6..8 : Output[i + 4] = Given[i]
        /\ Output[13] = "-"
        /\ \A i \in 9..12 : Output[i + 5] = Given[i]
        /\ Remove(Output, {" ", "(", ")", "-"}) = Given

\* C22 witness: an identifier of the pattern whose area code, exchange and
\* last four digits are three different groups was formatted.
C22_Witness ==
    /\ Formatted
    /\ PhonePattern(Given)
    /\ Given[3] = "0"
    /\ SubSeq(Given, 3, 5) # SubSeq(Given, 6, 8)
    /\ Output # Given

\* C23: the formatter rewrites only the identifiers of the pattern: every
\* non-empty identifier other than 'Unknown' that contains no '@' and is not
\* '+1' followed by exactly ten digits is returned unchanged.
C23_OnlyPhonePatternRewritten ==
    (/\ Formatted
     /\ Given # <<>>
     /\ Given # UnknownStr.s
     /\ ~Has(Given, "@")
     /\ ~PhonePattern(Given)) => Output = Given

\* C24: for every input that contains '@' the formatter returns the input
\* unchanged, whatever its other characters and its length are.
C24_EmailUnchanged ==
    (Formatted /\ Has(Given, "@")) => Output = Given

\* C24 witness: an input of 12 characters that starts with '+1' and
\* contains '@' was formatted.
C24_Witness ==
    /\ Formatted
    /\ Has(Given, "@")
    /\ Len(Given) = 12
    /\ SubSeq(Given, 1, 2) = <<"+", "1">>

\* ------------------------------------------------------------ tool claims
Invoked(tool) == pc = "idle" /\ last.tool = tool

\* C25: for every top_n >= 0 the tool get_word_frequency(top_n) returns the
\* top_n most frequent tokens of the loaded collection: the same ordered
\* mapping as the analyzer's word_frequency(top_n), also for a top_n larger
\* than 10. Stated for a collection that is not empty.
C25_ToolWordFrequencyIsTopN ==
    (Invoked("get_word_frequency") /\ last.n >= 0 /\ messages # <<>>) =>
        last.result.value.items = word_frequency(messages, last.n).items

\* The messages a search for query is to return: those whose text is not
\* empty and contains the query, compared in lower case.
Found(msgs, query) ==
    SelectSeq(msgs, LAMBDA m : Truthy(m.text) /\ IsSubstr(Lower(query), Lower(m.text.s)))

\* C26: for every limit >= 0 the tool search_messages(query, limit) returns
\* at most limit results, and they are the first messages, in collection
\* order, whose non-empty text contains the query case-insensitively.
C26_SearchReturnsFirstMatchesUpToLimit ==
    (Invoked("search_messages") /\ last.n >= 0 /\ ~last.result.has_error) =>
        LET results == last.result.value
            found == Found(messages, last.q)
        IN /\ Len(results) <= last.n
           /\ Len(results) <= Len(found)
           /\ \A i \in 1..Len(results) :
                 /\ results[i].text = found[i].text
                 /\ results[i].date = found[i].date
                 /\ results[i].is_from_me = found[i].is_from_me
                 /\ results[i].sender = format_phone_number(found[i].handle_id)

\* ------------------------------------------------------------- load claims
\* What the fallback path produced: the messages it kept of the rows its
\* query returned, none when the query was never answered.
ProducedByFallback == IF fb.outcome = "rows" THEN FallbackCollect(fb.rows) ELSE <<>>

\* C27: when fetch_messages returns false the collection is empty, and when
\* the fallback path has run the collection holds only messages the fallback
\* produced: rows normalized by a primary path that failed part-way never
\* remain in the collection after fetch_messages returns.
C27_NoPrimaryLeftovers ==
    pc = "fetch_returned" =>
        /\ fetchResult = "false" => messages = <<>>
        /\ fb.outcome # "none" => messages = ProducedByFallback

====
